---- MODULE Spec2Model ----
(***************************************************************************)
(* v4m: provisioning and launch of one local virtual machine per run.      *)
(* The model follows src/v4m.c step by step: main, init_dirs,              *)
(* ensure_distro, create_cloud_init, create_vm, start_vm, show_vm_info.    *)
(* Every external command (curl, cp, qemu-img, dd, openssl, hdiutil, the   *)
(* shell that backgrounds qemu) is a nondeterministic exit status; what    *)
(* the program does with that status is taken from the code.               *)
(* Not modelled: argument-parsing errors and --help, the wall-clock        *)
(* timestamps written into meta-data and vm-info.json, and VM names that   *)
(* are not a single path component.                                        *)
(***************************************************************************)
EXTENDS Integers, Sequences, FiniteSets, TLC

VARIABLES
    fs,         \* the files and directories under <home>/.v4m and /tmp
    proc,       \* per invocation: position, arguments, locals, exit status
    pre,        \* per invocation: the filesystem as it was when the run began
    runs,       \* number of invocations started so far
    faults,     \* number of external commands and system calls that have failed
    issued      \* every generated name and MAC, with the time(NULL) it was seeded from

vars == <<fs, proc, pre, runs, faults, issued>>

-----------------------------------------------------------------------------
(* Bounds and input sets *)

MaxRuns == 2
MaxFaults == 1

Procs == {1, 2}
SeqProcs == {1}
\* The readings of time(NULL) tried
Seconds == {0, 1}

\* The command lines tried; "" stands for an option that is not given.
ArgVectors ==
    { [name |-> "demo1", distro |-> "debian12", user |-> "alice", pass |-> "secret123"],
      [name |-> "demo1", distro |-> "bogus", user |-> "alice", pass |-> "secret123"],
      [name |-> "demo2", distro |-> "ubuntu22", user |-> "", pass |-> ""],
      [name |-> "", distro |-> "", user |-> "", pass |-> "secret123"] }

-----------------------------------------------------------------------------
(* Program constants *)

DEFAULT_DISTRO == "debian12"
DEFAULT_USER == "user01"
DEFAULT_DISK_SIZE == "20G"

Catalog == {"debian12", "ubuntu22", "ubuntu24"}

NULL == <<>>

\* A URL is the sequence of its '/'-separated segments.
get_distro_url(d) ==
    IF d = "debian12" THEN
        <<"https:", "", "cloud.debian.org", "images", "cloud", "bookworm",
          "latest", "debian-12-generic-arm64.qcow2">>
    ELSE IF d = "ubuntu22" THEN
        <<"https:", "", "cloud-images.ubuntu.com", "releases", "22.04",
          "release", "ubuntu-22.04-server-cloudimg-arm64.img">>
    ELSE IF d = "ubuntu24" THEN
        <<"https:", "", "cloud-images.ubuntu.com", "releases", "24.04",
          "release", "ubuntu-24.04-server-cloudimg-arm64.img">>
    ELSE NULL

\* strrchr(url, '/') + 1
Basename(url) == url[Len(url)]

\* distro_path of ensure_distro, relative to <home>/.v4m
DistroPath(d) == <<"distros", d, Basename(get_distro_url(d))>>

-----------------------------------------------------------------------------
(* Helpers *)

Merge(r, u) == [f \in DOMAIN r |-> IF f \in DOMAIN u THEN u[f] ELSE r[f]]

\* srand(seed) followed by i calls of rand(): the i-th value. The C library's
\* generator is implementation-defined; a 16-bit linear congruential
\* generator stands for it.
RECURSIVE Rand(_, _)
Rand(seed, i) ==
    IF i = 0 THEN seed % 65536
    ELSE (Rand(seed, i - 1) * 25173 + 13849) % 65536

MacPrefix == <<82, 84, 0>>

\* generate_mac: "52:54:00:%02x:%02x:%02x" as the six octets
generate_mac(seed) ==
    MacPrefix \o <<Rand(seed, 1) % 256, Rand(seed, 2) % 256, Rand(seed, 3) % 256>>

adjectives == <<"fast", "quick", "smart", "bright", "cool",
                "swift", "agile", "sharp", "clever", "rapid">>
nouns == <<"vm", "box", "node", "server", "instance",
           "machine", "host", "system", "unit", "engine">>

generate_vm_name(seed) ==
    adjectives[(Rand(seed, 1) % 10) + 1] \o "-" \o nouns[(Rand(seed, 2) % 10) + 1]
        \o "-" \o ToString(Rand(seed, 3) % 100)

\* Every distro identifier a run can name
Distros == Catalog \cup {IF a.distro = "" THEN DEFAULT_DISTRO ELSE a.distro : a \in ArgVectors}

Names == ({a.name : a \in ArgVectors} \ {""}) \cup {generate_vm_name(s) : s \in Seconds}

\* openssl passwd -6 "<password>": the line it prints, "$6$<salt>$<digest>"
Hash(password) == "$6$" \o password

SecurePassword == "q7Rz2mPw9LxT"
FallbackPassword == "AbCdEfGh0123"

-----------------------------------------------------------------------------
(* Filesystem values *)

NoDisk == [st |-> "absent", from |-> "", size |-> ""]
NoUserData == [st |-> "absent", hostname |-> "", fqdn |-> <<>>, user |-> "",
               passwd |-> "", rootpasswd |-> ""]
NoMetaData == [st |-> "absent", hostname |-> ""]
NoIso == [st |-> "absent", userdata |-> NoUserData, metadata |-> NoMetaData]
NoInfo == [st |-> "absent", name |-> "", distro |-> "", username |-> "",
           password |-> "", mac |-> <<>>]

NoDir == [exists |-> FALSE, disk |-> NoDisk, efi |-> "absent",
          userdata |-> NoUserData, metadata |-> NoMetaData, iso |-> NoIso,
          info |-> NoInfo, log |-> "absent", pid |-> "absent"]
EmptyDir == Merge(NoDir, [exists |-> TRUE])

NoTmp == [exists |-> FALSE, userdata |-> NoUserData, metadata |-> NoMetaData]

\* what show_vm_info prints: nothing, or the summary with the three fields
\* it scanned out of vm-info.json
NoSummary == [shown |-> FALSE, username |-> "", password |-> "", mac |-> <<>>]

IdleProc == [pc |-> "idle", vm_name |-> "", distro |-> "", username |-> "",
             password |-> "", vm_mac |-> <<>>, hashed_pass |-> "",
             exit |-> -1, err |-> "", qemu |-> "none", summary |-> NoSummary,
             trace |-> <<>>]

file_exists(f, d) == f.cache[d] # "absent"
dir_exists(f, n) == f.vms[n].exists

-----------------------------------------------------------------------------

Init ==
    /\ fs = [base |-> {},
             distroDir |-> [d \in Distros |-> FALSE],
             cache |-> [d \in Distros |-> "absent"],
             vms |-> [n \in Names |-> NoDir],
             tmp |-> [p \in Procs |-> NoTmp]]
    /\ proc = [p \in Procs |-> IdleProc]
    /\ pre = [p \in Procs |-> fs]
    /\ runs = 0
    /\ faults = 0
    /\ issued = [names |-> {}, macs |-> {}]

\* The outcomes of a step that can fail, and the count of the failures
MayFail == IF faults < MaxFaults THEN BOOLEAN ELSE {TRUE}
Fault(ok) == faults' = IF ok THEN faults ELSE faults + 1

At(p, lbl) == proc[p].pc = lbl

\* proc[p] moves to lbl with the fields of upd assigned
Step(p, lbl, upd) ==
    proc' = [proc EXCEPT ![p] =
                Merge(Merge(proc[p], upd),
                      [pc |-> lbl, trace |-> Append(proc[p].trace, proc[p].pc)])]

\* log_error(msg); return code -- up to main's return
Exit(p, code, msg) == Step(p, "done", [exit |-> code, err |-> msg])

VmDir(p) == fs.vms[proc[p].vm_name]
SetVm(p, upd) == fs' = [fs EXCEPT !.vms[proc[p].vm_name] = Merge(@, upd)]

-----------------------------------------------------------------------------
(* main (lines 77-145) *)

\* what a step leaves alone
SameFs == UNCHANGED fs
SameRuns == UNCHANGED <<pre, runs>>
SameHist == SameRuns /\ UNCHANGED issued
NoFault == UNCHANGED faults

\* argv parsed: options not given keep their defaults (lines 78-114)
Start(p) ==
    /\ proc[p].pc \in {"idle", "done"}
    /\ runs < MaxRuns
    /\ \E a \in ArgVectors :
         proc' = [proc EXCEPT ![p] =
                    Merge(IdleProc,
                          [pc |-> "gen_name",
                           vm_name |-> a.name,
                           distro |-> IF a.distro = "" THEN DEFAULT_DISTRO ELSE a.distro,
                           username |-> IF a.user = "" THEN DEFAULT_USER ELSE a.user,
                           password |-> a.pass])]
    /\ pre' = [pre EXCEPT ![p] = fs]
    /\ runs' = runs + 1
    /\ UNCHANGED <<fs, faults, issued>>

GenName(p) ==
    /\ At(p, "gen_name")
    /\ IF proc[p].vm_name = ""
       THEN \E s \in Seconds :
              /\ Step(p, "gen_pass", [vm_name |-> generate_vm_name(s)])
              /\ issued' = [issued EXCEPT !.names =
                               @ \cup {[at |-> s, val |-> generate_vm_name(s)]}]
       ELSE Step(p, "gen_pass", << >>) /\ UNCHANGED issued
    /\ SameFs /\ SameRuns /\ NoFault

\* popen succeeds: the first line of the pipeline's output, if there is one;
\* popen fails: the pseudo-random fallback
generate_password(old, popened, line) ==
    IF popened THEN (IF line THEN SecurePassword ELSE old)
    ELSE FallbackPassword

GenPass(p) ==
    /\ At(p, "gen_pass")
    /\ IF proc[p].password = ""
       THEN \E popened, line \in MayFail :
              /\ Step(p, "check_root",
                      [password |-> generate_password(proc[p].password, popened, line)])
              /\ Fault(popened /\ line)
       ELSE Step(p, "check_root", << >>) /\ NoFault
    /\ SameFs /\ SameHist

\* check_root: geteuid() != 0
CheckRoot(p) ==
    /\ At(p, "check_root")
    /\ \E euid0 \in BOOLEAN :
         IF euid0 THEN Step(p, "init_dirs", << >>)
         ELSE Exit(p, 1, "This script requires sudo privileges")
    /\ SameFs /\ SameHist /\ NoFault

init_dirs(f) == Merge(f, [base |-> {"v4m", "distros", "vms"}])

InitDirs(p) ==
    /\ At(p, "init_dirs")
    /\ fs' = init_dirs(fs)
    /\ Step(p, "check_qemu", << >>)
    /\ SameHist /\ NoFault

\* system("command -v qemu-system-aarch64")
CheckQemu(p) ==
    /\ At(p, "check_qemu")
    /\ \E found \in BOOLEAN :
         IF found THEN Step(p, "cv_exists", << >>)
         ELSE Exit(p, 1, "QEMU not found")
    /\ SameFs /\ SameHist /\ NoFault

-----------------------------------------------------------------------------
(* create_vm, first part: existence check and directory (lines 385-396) *)

\* create_vm without the "VM already exists" return
CheckExistsSkipped(p) ==
    /\ At(p, "cv_exists")
    /\ Step(p, "cv_mkdir", << >>)
    /\ SameFs /\ SameHist /\ NoFault

CheckExists(p) ==
    /\ At(p, "cv_exists")
    /\ IF dir_exists(fs, proc[p].vm_name)
       THEN Exit(p, 1, "VM already exists")
       ELSE Step(p, "cv_mkdir", << >>)
    /\ SameFs /\ SameHist /\ NoFault

\* create_vm going from mkdir straight to the disk copy
MkVmDirSkipsCache(p) ==
    /\ At(p, "cv_mkdir")
    /\ \E ok \in MayFail :
         /\ IF ok /\ "vms" \in fs.base /\ ~VmDir(p).exists
            THEN SetVm(p, [exists |-> TRUE])
            ELSE fs' = fs
         /\ Fault(ok)
    /\ Step(p, "cv_copy", << >>)
    /\ SameHist

\* mkdir(vm_dir, 0755); the result is not looked at
MkVmDir(p) ==
    /\ At(p, "cv_mkdir")
    /\ \E ok \in MayFail :
         /\ IF ok /\ "vms" \in fs.base /\ ~VmDir(p).exists
            THEN SetVm(p, [exists |-> TRUE])
            ELSE fs' = fs
         /\ Fault(ok)
    /\ Step(p, "ed_lookup", << >>)
    /\ SameHist

-----------------------------------------------------------------------------
(* ensure_distro (lines 230-266) *)

\* ensure_distro without the NULL-url return
EdLookupUnchecked(p) ==
    /\ At(p, "ed_lookup")
    /\ Step(p, "ed_exists", << >>)
    /\ SameFs /\ SameHist /\ NoFault

EdLookup(p) ==
    /\ At(p, "ed_lookup")
    /\ IF get_distro_url(proc[p].distro) = NULL
       THEN Exit(p, 1, "Unknown distro")
       ELSE Step(p, "ed_exists", << >>)
    /\ SameFs /\ SameHist /\ NoFault

\* ensure_distro without the cache-hit return
EdExistsAlwaysMiss(p) ==
    /\ At(p, "ed_exists")
    /\ Step(p, "ed_mkdir", << >>)
    /\ SameFs /\ SameHist /\ NoFault

EdExists(p) ==
    /\ At(p, "ed_exists")
    /\ IF file_exists(fs, proc[p].distro)
       THEN Step(p, "cv_copy", << >>)
       ELSE Step(p, "ed_mkdir", << >>)
    /\ SameFs /\ SameHist /\ NoFault

EdMkdir(p) ==
    /\ At(p, "ed_mkdir")
    /\ fs' = IF "distros" \in fs.base
             THEN [fs EXCEPT !.distroDir[proc[p].distro] = TRUE]
             ELSE fs
    /\ Step(p, "ed_curl", << >>)
    /\ SameHist /\ NoFault

\* system("curl -L -o path url") starts and opens its output file
EdCurlStart(p) ==
    /\ At(p, "ed_curl")
    /\ fs' = IF fs.distroDir[proc[p].distro]
             THEN [fs EXCEPT !.cache[proc[p].distro] = "partial"]
             ELSE fs
    /\ Step(p, "ed_curl_wait", << >>)
    /\ SameHist /\ NoFault

\* curl exits: status 0 leaves the whole image at the path
EdCurlExit(p) ==
    /\ At(p, "ed_curl_wait")
    /\ \E ok \in MayFail :
         /\ IF ok /\ fs.distroDir[proc[p].distro]
            THEN /\ fs' = [fs EXCEPT !.cache[proc[p].distro] = "complete"]
                 /\ Step(p, "cv_copy", << >>)
            ELSE /\ fs' = fs
                 /\ Step(p, "ed_remove", << >>)
         /\ Fault(ok)
    /\ SameHist

\* ensure_distro returning without remove(distro_path)
EdRemoveKeepsPartial(p) ==
    /\ At(p, "ed_remove")
    /\ Exit(p, 1, "Failed to download distro")
    /\ SameFs /\ SameHist /\ NoFault

\* log_error; remove(distro_path); return 1
EdRemove(p) ==
    /\ At(p, "ed_remove")
    /\ fs' = [fs EXCEPT !.cache[proc[p].distro] = "absent"]
    /\ Exit(p, 1, "Failed to download distro")
    /\ SameHist /\ NoFault

-----------------------------------------------------------------------------
(* create_vm, disk (lines 403-427) *)

\* cp "<distro_path>" "<vm_dir>/disk.qcow2": reads the cached image only
CopyDisk(p) ==
    /\ At(p, "cv_copy")
    /\ \E ok \in MayFail :
         /\ IF ok /\ VmDir(p).exists /\ file_exists(fs, proc[p].distro)
            THEN /\ SetVm(p, [disk |-> [st |-> fs.cache[proc[p].distro],
                                        from |-> proc[p].distro, size |-> "orig"]])
                 /\ Step(p, "cv_resize", << >>)
            ELSE /\ fs' = fs
                 /\ Exit(p, 1, "Failed to copy disk image")
         /\ Fault(ok)
    /\ SameHist

\* qemu-img resize applied to distro_path instead of vm_disk
ResizeDiskInCache(p) ==
    /\ At(p, "cv_resize")
    /\ \E ok \in MayFail :
         /\ IF ok /\ VmDir(p).disk.st # "absent"
            THEN /\ fs' = [fs EXCEPT !.cache[proc[p].distro] = "resized"]
                 /\ Step(p, "cv_mac", << >>)
            ELSE /\ fs' = fs
                 /\ Exit(p, 1, "Failed to resize disk")
         /\ Fault(ok)
    /\ SameHist

\* qemu-img resize "<vm_dir>/disk.qcow2" 20G
ResizeDisk(p) ==
    /\ At(p, "cv_resize")
    /\ \E ok \in MayFail :
         /\ IF ok /\ VmDir(p).disk.st # "absent"
            THEN /\ SetVm(p, [disk |-> Merge(VmDir(p).disk, [size |-> DEFAULT_DISK_SIZE])])
                 /\ Step(p, "cv_mac", << >>)
            ELSE /\ fs' = fs
                 /\ Exit(p, 1, "Failed to resize disk")
         /\ Fault(ok)
    /\ SameHist

\* generate_mac without srand(time(NULL)): the generator goes on from a seed
\* that differs from run to run
GenMacNotReseeded(p) ==
    /\ At(p, "cv_mac")
    /\ \E s \in Seconds :
         /\ Step(p, "cv_efi", [vm_mac |-> generate_mac(s + 7 * runs)])
         /\ issued' = [issued EXCEPT !.macs =
                          @ \cup {[at |-> s, val |-> generate_mac(s + 7 * runs)]}]
    /\ SameFs /\ SameRuns /\ NoFault

GenMac(p) ==
    /\ At(p, "cv_mac")
    /\ \E s \in Seconds :
         /\ Step(p, "cv_efi", [vm_mac |-> generate_mac(s)])
         /\ issued' = [issued EXCEPT !.macs =
                          @ \cup {[at |-> s, val |-> generate_mac(s)]}]
    /\ SameFs /\ SameRuns /\ NoFault

\* system("dd if=/dev/zero of=efi-vars.fd bs=1M count=64"); status ignored
MakeEfi(p) ==
    /\ At(p, "cv_efi")
    /\ \E ok \in MayFail :
         /\ IF ok /\ VmDir(p).exists
            THEN SetVm(p, [efi |-> "zero64M"])
            ELSE fs' = fs
         /\ Fault(ok)
    /\ Step(p, "ci_hash", << >>)
    /\ SameHist

-----------------------------------------------------------------------------
(* create_cloud_init (lines 294-376) *)

\* create_cloud_init going on with an empty hash when hash_password fails
HashPasswordUnchecked(p) ==
    /\ At(p, "ci_hash")
    /\ \E ok \in MayFail :
         /\ Step(p, "ci_userdata",
                 [hashed_pass |-> IF ok THEN Hash(proc[p].password) ELSE ""])
         /\ Fault(ok)
    /\ SameFs /\ SameHist

\* hash_password: fails when popen fails or the subprocess prints no line
HashPassword(p) ==
    /\ At(p, "ci_hash")
    /\ \E ok \in MayFail :
         /\ IF ok
            THEN Step(p, "ci_userdata", [hashed_pass |-> Hash(proc[p].password)])
            ELSE Exit(p, 1, "Failed to hash password")
         /\ Fault(ok)
    /\ SameFs /\ SameHist

UserData(vm_name, username, hashed_pass) ==
    [st |-> "file", hostname |-> vm_name, fqdn |-> <<vm_name, "local">>,
     user |-> username, passwd |-> hashed_pass, rootpasswd |-> hashed_pass]

MetaData(vm_name) == [st |-> "file", hostname |-> vm_name]

WriteUserData(p) ==
    /\ At(p, "ci_userdata")
    /\ \E ok \in MayFail :
         /\ IF ok /\ VmDir(p).exists
            THEN /\ SetVm(p, [userdata |-> UserData(proc[p].vm_name, proc[p].username,
                                                    proc[p].hashed_pass)])
                 /\ Step(p, "ci_metadata", << >>)
            ELSE /\ fs' = fs
                 /\ Exit(p, 1, "Failed to create user-data file")
         /\ Fault(ok)
    /\ SameHist

WriteMetaData(p) ==
    /\ At(p, "ci_metadata")
    /\ \E ok \in MayFail :
         /\ IF ok /\ VmDir(p).exists
            THEN /\ SetVm(p, [metadata |-> MetaData(proc[p].vm_name)])
                 /\ Step(p, "cv_tmp_mkdir", << >>)
            ELSE /\ fs' = fs
                 /\ Exit(p, 1, "Failed to create meta-data file")
         /\ Fault(ok)
    /\ SameHist

-----------------------------------------------------------------------------
(* create_vm, configuration volume (lines 435-470) *)

\* mkdir("/tmp/cloud-init-<pid>"); the result is not looked at
MkTmpDir(p) ==
    /\ At(p, "cv_tmp_mkdir")
    /\ \E ok \in MayFail :
         /\ fs' = IF ok THEN [fs EXCEPT !.tmp[p].exists = TRUE] ELSE fs
         /\ Fault(ok)
    /\ Step(p, "cv_tmp_copy", << >>)
    /\ SameHist

\* copy_file(src, dest): cp copies when the source file and the target
\* directory exist
copy_file(ok, src, destDirExists, old) ==
    IF ok /\ destDirExists /\ src.st # "absent" THEN src ELSE old

\* the two copy_file calls; neither result is looked at
CopyToTmp(p) ==
    /\ At(p, "cv_tmp_copy")
    /\ \E okU, okM \in MayFail :
         /\ fs' = [fs EXCEPT !.tmp[p] =
                     [exists |-> @.exists,
                      userdata |-> copy_file(okU, VmDir(p).userdata, @.exists, @.userdata),
                      metadata |-> copy_file(okM, VmDir(p).metadata, @.exists, @.metadata)]]
         /\ Fault(okU /\ okM)
    /\ Step(p, "cv_iso", << >>)
    /\ SameHist

\* system("hdiutil makehybrid ... -o cloud-init.iso <temp_dir>")
MakeIso(p) ==
    /\ At(p, "cv_iso")
    /\ \E ok \in MayFail :
         /\ IF ok /\ VmDir(p).exists /\ fs.tmp[p].exists
            THEN /\ SetVm(p, [iso |-> [st |-> "file",
                                       userdata |-> fs.tmp[p].userdata,
                                       metadata |-> fs.tmp[p].metadata]])
                 /\ Step(p, "cv_tmp_rm", << >>)
            ELSE /\ fs' = fs
                 /\ Step(p, "cv_iso_failed", << >>)
         /\ Fault(ok)
    /\ SameHist

\* rm -rf "<temp_dir>" alone
RemoveTmpOnly(f, p, n) == [f EXCEPT !.tmp[p] = NoTmp]

\* rm -rf "<temp_dir>" "<vm_dir>"
RemoveTmpAndVm(f, p, n) == [f EXCEPT !.tmp[p] = NoTmp, !.vms[n] = NoDir]

\* log_error; system(rm_cmd); return 1
IsoFailed(p) ==
    /\ At(p, "cv_iso_failed")
    /\ fs' = RemoveTmpAndVm(fs, p, proc[p].vm_name)
    /\ Exit(p, 1, "Failed to create cloud-init ISO")
    /\ SameHist /\ NoFault

\* create_vm without the rm -rf of temp_dir after a successful packaging
RmTmpSkipped(p) ==
    /\ At(p, "cv_tmp_rm")
    /\ Step(p, "cv_info", << >>)
    /\ SameFs /\ SameHist /\ NoFault

\* system("rm -rf <temp_dir>")
RmTmp(p) ==
    /\ At(p, "cv_tmp_rm")
    /\ fs' = [fs EXCEPT !.tmp[p] = NoTmp]
    /\ Step(p, "cv_info", << >>)
    /\ SameHist /\ NoFault

-----------------------------------------------------------------------------
(* create_vm, state record (lines 472-501) *)

VmInfo(vm_name, distro, username, password, vm_mac) ==
    [st |-> "file", name |-> vm_name, distro |-> distro, username |-> username,
     password |-> password, mac |-> vm_mac]

\* fopen(vm_info_path, "w"): a NULL result skips the write and nothing else
SaveInfo(p) ==
    /\ At(p, "cv_info")
    /\ \E ok \in MayFail :
         /\ IF ok /\ VmDir(p).exists
            THEN SetVm(p, [info |-> VmInfo(proc[p].vm_name, proc[p].distro,
                                           proc[p].username, proc[p].password,
                                           proc[p].vm_mac)])
            ELSE fs' = fs
         /\ Fault(ok)
    /\ Step(p, "sv_reset", << >>)
    /\ SameHist

-----------------------------------------------------------------------------
(* start_vm (lines 504-574) *)

\* fopen(log_file, "w") truncates console.log; remove(monitor_socket)
ResetLog(p) ==
    /\ At(p, "sv_reset")
    /\ IF VmDir(p).exists
       THEN SetVm(p, [log |-> "empty"])
       ELSE fs' = fs
    /\ Step(p, "sv_launch", << >>)
    /\ SameHist /\ NoFault

\* start_vm tearing the VM directory down when the launch fails
LaunchWithTeardown(p) ==
    /\ At(p, "sv_launch")
    /\ \E shell, up \in MayFail :
         /\ IF shell
            THEN /\ Step(p, "sv_pid", [qemu |-> IF up THEN "running" ELSE "failed"])
                 /\ fs' = fs
            ELSE /\ Exit(p, 1, "Failed to start QEMU")
                 /\ fs' = [fs EXCEPT !.vms[proc[p].vm_name] = NoDir]
         /\ Fault(shell /\ up)
    /\ SameHist

\* system("nohup qemu-system-aarch64 ... > console.log 2>&1 &"): the command
\* ends in '&', so the shell's status is 0 whether or not the hypervisor
\* comes up; it is non-zero only when the shell itself cannot be run
Launch(p) ==
    /\ At(p, "sv_launch")
    /\ \E shell, up \in MayFail :
         /\ IF shell
            THEN Step(p, "sv_pid", [qemu |-> IF up THEN "running" ELSE "failed"])
            ELSE Exit(p, 1, "Failed to start QEMU")
         /\ Fault(shell /\ up)
    /\ SameFs /\ SameHist

\* system("echo $! > vm.pid") runs in a new shell, where $! is empty
WritePid(p) ==
    /\ At(p, "sv_pid")
    /\ IF VmDir(p).exists
       THEN SetVm(p, [pid |-> "empty"])
       ELSE fs' = fs
    /\ Step(p, "sv_sleep", << >>)
    /\ SameHist /\ NoFault

\* sleep(60)
BootWait(p) ==
    /\ At(p, "sv_sleep")
    /\ Step(p, "sv_show", << >>)
    /\ SameFs /\ SameHist /\ NoFault

\* show_vm_info: fopen(vm_info_path, "r") == NULL returns before anything is
\* printed; otherwise the username, password and mac lines are scanned (the
\* values written contain no '"') and the summary is printed
show_vm_info(opened, info) ==
    IF opened /\ info.st = "file"
    THEN [shown |-> TRUE, username |-> info.username,
          password |-> info.password, mac |-> info.mac]
    ELSE NoSummary

\* show_vm_info(vm_name, vm_dir); start_vm and main return 0
ShowInfo(p) ==
    /\ At(p, "sv_show")
    /\ \E opened \in MayFail :
         /\ Step(p, "done", [exit |-> 0, err |-> "",
                             summary |-> show_vm_info(opened, VmDir(p).info)])
         /\ Fault(opened)
    /\ SameFs /\ SameHist

-----------------------------------------------------------------------------

\* the statements of a run after argument parsing
Steps(p) ==
    \/ GenName(p) \/ GenPass(p) \/ CheckRoot(p) \/ InitDirs(p)
    \/ CheckQemu(p) \/ CheckExists(p) \/ MkVmDir(p)
    \/ EdLookup(p) \/ EdExists(p) \/ EdMkdir(p) \/ EdCurlStart(p)
    \/ EdCurlExit(p) \/ EdRemove(p)
    \/ CopyDisk(p) \/ ResizeDisk(p) \/ GenMac(p) \/ MakeEfi(p)
    \/ HashPassword(p) \/ WriteUserData(p) \/ WriteMetaData(p)
    \/ MkTmpDir(p) \/ CopyToTmp(p) \/ MakeIso(p) \/ IsoFailed(p) \/ RmTmp(p)
    \/ SaveInfo(p) \/ ResetLog(p) \/ Launch(p) \/ WritePid(p) \/ BootWait(p)
    \/ ShowInfo(p)

Run(p) == Start(p) \/ Steps(p)

\* one invocation at a time
Next == \E p \in SeqProcs : Run(p)

Spec == Init /\ [][Next]_vars

\* The command line tried for invocations that run at the same time
ConcArgVectors ==
    { [name |-> "demo1", distro |-> "debian12", user |-> "alice", pass |-> "secret123"] }

\* one invocation per process, each started once (lines 78-114)
StartConc(p) ==
    /\ At(p, "idle")
    /\ runs < MaxRuns
    /\ \E a \in ConcArgVectors :
         proc' = [proc EXCEPT ![p] =
                    Merge(IdleProc,
                          [pc |-> "gen_name",
                           vm_name |-> a.name,
                           distro |-> IF a.distro = "" THEN DEFAULT_DISTRO ELSE a.distro,
                           username |-> IF a.user = "" THEN DEFAULT_USER ELSE a.user,
                           password |-> a.pass])]
    /\ pre' = [pre EXCEPT ![p] = fs]
    /\ runs' = runs + 1
    /\ UNCHANGED <<fs, faults, issued>>

\* two invocations whose statements interleave
NextConc == \E p \in Procs : StartConc(p) \/ Steps(p)

SpecConc == Init /\ [][NextConc]_vars

-----------------------------------------------------------------------------
(* Properties *)

Done(p) == proc[p].pc = "done"
Passed(p, lbl) == \E i \in DOMAIN proc[p].trace : proc[p].trace[i] = lbl
MyDir(p) == fs.vms[proc[p].vm_name]
MyDirBefore(p) == pre[p].vms[proc[p].vm_name]

\* C1: a run whose distro is not a catalog key exits 1 and at no point
\* creates a directory under vms/.
C1_UnknownDistroCreatesNoVmDir ==
    \A p \in Procs :
        (proc[p].pc # "idle" /\ proc[p].distro \notin Catalog) =>
            /\ \A n \in Names : fs.vms[n].exists => pre[p].vms[n].exists
            /\ Done(p) => proc[p].exit = 1

\* C2: when create_vm finds vms/<name>/ already there it fails, the run exits
\* 1, the directory and every file in it are as they were, the image cache is
\* not consulted and no hypervisor is launched.
C2_NameCollisionChangesNothing ==
    \A p \in Procs :
        (Passed(p, "cv_exists") /\ MyDirBefore(p).exists) =>
            /\ Done(p) /\ proc[p].exit = 1 /\ proc[p].err = "VM already exists"
            /\ MyDir(p) = MyDirBefore(p)
            /\ fs.cache = pre[p].cache /\ fs.distroDir = pre[p].distroDir
            /\ ~Passed(p, "ed_lookup") /\ ~Passed(p, "ed_curl")
            /\ ~Passed(p, "sv_launch") /\ proc[p].qemu = "none"

C2_Witness ==
    \E p \in Procs :
        /\ Done(p) /\ proc[p].err = "VM already exists"
        /\ MyDirBefore(p).disk.st = "complete" /\ MyDirBefore(p).info.st = "file"

Files == {"disk", "efi", "userdata", "metadata", "iso", "info", "log", "pid"}

HasFile(dir, f) ==
    CASE f = "disk" -> dir.disk.st # "absent"
      [] f = "efi" -> dir.efi # "absent"
      [] f = "userdata" -> dir.userdata.st # "absent"
      [] f = "metadata" -> dir.metadata.st # "absent"
      [] f = "iso" -> dir.iso.st # "absent"
      [] f = "info" -> dir.info.st # "absent"
      [] f = "log" -> dir.log # "absent"
      [] f = "pid" -> dir.pid # "absent"

\* nothing of old is missing in new
Kept(old, new) ==
    /\ old.exists => new.exists
    /\ \A f \in Files : HasFile(old, f) => HasFile(new, f)

IsoError == "Failed to create cloud-init ISO"

\* C3 as stated: a run that fails after creating vms/<name>/ ends with the
\* directory deleted.
C3_AnyFailureDeletesVmDir ==
    \A p \in Procs :
        (Done(p) /\ proc[p].exit = 1 /\ Passed(p, "cv_mkdir")) => ~MyDir(p).exists

\* C3 as amended: a run that fails at ISO packaging ends with vms/<name>/, all
\* artifacts in it and the scratch directory deleted; no other step removes a
\* VM directory or a file in one.
C3_OnlyIsoFailureDeletesVmDir ==
    /\ [](\A p \in Procs :
            (Done(p) /\ proc[p].err = IsoError) =>
                (proc[p].exit = 1 /\ MyDir(p) = NoDir /\ fs.tmp[p] = NoTmp))
    /\ [][\A n \in Names :
            Kept(fs.vms[n], fs'.vms[n])
            \/ \E p \in Procs : proc[p].pc = "cv_iso_failed" /\ proc[p].vm_name = n]_vars

C3_Witness ==
    \E p \in Procs :
        /\ Done(p) /\ proc[p].err = IsoError
        /\ ~MyDirBefore(p).exists /\ Passed(p, "ci_metadata")

DiskReady(p) ==
    /\ MyDir(p).exists
    /\ MyDir(p).disk = [st |-> "complete", from |-> proc[p].distro,
                        size |-> DEFAULT_DISK_SIZE]

\* C4 as stated: after the disk stage, a failing run (hashing, document
\* writing, ISO packaging, launch) ends with the VM directory and its files
\* still there.
C4_NoRollbackAfterDiskStage ==
    \A p \in Procs :
        (Done(p) /\ proc[p].exit = 1 /\ Passed(p, "cv_efi")) => DiskReady(p)

\* C4 as amended: after the disk stage, a failure of password hashing, of
\* writing user-data or meta-data, or of the launch stops the run with the VM
\* directory and the files written so far in place; a failure of ISO
\* packaging stops the run with the VM directory deleted.
C4_NoRollbackExceptIsoFailure ==
    \A p \in Procs :
        (Done(p) /\ proc[p].exit = 1 /\ Passed(p, "cv_efi")) =>
            \/ /\ proc[p].err = IsoError
               /\ MyDir(p) = NoDir /\ ~Passed(p, "cv_info")
            \/ /\ proc[p].err = "Failed to hash password"
               /\ DiskReady(p) /\ ~Passed(p, "ci_userdata")
            \/ /\ proc[p].err = "Failed to create user-data file"
               /\ DiskReady(p) /\ ~Passed(p, "ci_metadata")
            \/ /\ proc[p].err = "Failed to create meta-data file"
               /\ DiskReady(p) /\ HasFile(MyDir(p), "userdata")
               /\ ~Passed(p, "cv_tmp_mkdir")
            \/ /\ proc[p].err = "Failed to start QEMU"
               /\ DiskReady(p) /\ ~Passed(p, "sv_pid")
               /\ \A f \in {"userdata", "metadata", "iso", "log"} : HasFile(MyDir(p), f)

C4_Witness ==
    \E p \in Procs :
        /\ Done(p) /\ proc[p].err = "Failed to start QEMU"
        /\ HasFile(MyDir(p), "iso") /\ HasFile(MyDir(p), "info")

\* C5: a run that stops on the privilege check or on the missing hypervisor
\* binary has changed nothing in the filesystem.
C5_PreflightErrorsChangeNothing ==
    \A p \in Procs :
        (Done(p) /\ proc[p].err \in {"This script requires sudo privileges",
                                     "QEMU not found"}) => fs = pre[p]

\* C6: the exit code is 0 exactly when the VM was created and the hypervisor
\* came up; a run in which the hypervisor start fails exits 1.
C6_ExitZeroIffCreatedAndLaunched ==
    \A p \in Procs :
        Done(p) => (proc[p].exit = 0 <=> (DiskReady(p) /\ HasFile(MyDir(p), "iso")
                                          /\ proc[p].qemu = "running"))

\* C7: a run that exits 0 from a state without vms/<name>/ leaves disk.qcow2,
\* efi-vars.fd and cloud-init.iso there, and a vm-info.json recording the
\* run's name, distro, username and password and a mac with prefix 52:54:00.
C7_SuccessLeavesArtifactsAndRecord ==
    \A p \in Procs :
        (Done(p) /\ proc[p].exit = 0 /\ ~MyDirBefore(p).exists) =>
            /\ \A f \in {"disk", "efi", "iso"} : HasFile(MyDir(p), f)
            /\ MyDir(p).info.st = "file"
            /\ MyDir(p).info.name = proc[p].vm_name
            /\ MyDir(p).info.distro = proc[p].distro
            /\ MyDir(p).info.username = proc[p].username
            /\ MyDir(p).info.password = proc[p].password
            /\ SubSeq(MyDir(p).info.mac, 1, 3) = <<82, 84, 0>>

\* C8: a run that starts with a regular file at the distro's cache path takes
\* ensure_distro's cache-hit return: the transfer client is not invoked and
\* nothing under distros/ is written.
C8_CacheHitDoesNotDownload ==
    \A p \in Procs :
        (proc[p].pc # "idle" /\ proc[p].distro \in Catalog
         /\ pre[p].cache[proc[p].distro] # "absent") =>
            /\ ~Passed(p, "ed_mkdir") /\ ~Passed(p, "ed_curl")
            /\ fs.cache = pre[p].cache /\ fs.distroDir = pre[p].distroDir
            /\ Passed(p, "ed_exists") => (At(p, "cv_copy") \/ Passed(p, "cv_copy"))

C8_Witness ==
    \E p \in Procs :
        /\ proc[p].distro \in Catalog
        /\ pre[p].cache[proc[p].distro] = "complete"
        /\ Passed(p, "ed_exists") /\ Passed(p, "cv_copy")

\* C9: ensure_distro called with an identifier outside the catalog fails, and
\* neither creates a distro directory, nor creates or removes a file, nor
\* invokes the transfer client.
C9_UnknownDistroWritesNothing ==
    \A p \in Procs :
        (Passed(p, "ed_lookup") /\ proc[p].distro \notin Catalog) =>
            /\ Done(p) /\ proc[p].exit = 1 /\ proc[p].err = "Unknown distro"
            /\ ~Passed(p, "ed_mkdir") /\ ~Passed(p, "ed_curl")
            /\ fs.distroDir = pre[p].distroDir /\ fs.cache = pre[p].cache
            /\ fs.tmp = pre[p].tmp
            /\ \A n \in Names \ {proc[p].vm_name} : fs.vms[n] = pre[p].vms[n]
            /\ MyDir(p) \in {NoDir, EmptyDir}

C9_Witness ==
    \E p \in Procs :
        Done(p) /\ proc[p].err = "Unknown distro" /\ MyDir(p) = EmptyDir

\* C10: a complete cached image stays as it is through every later step:
\* no step modifies or removes it.
C10_CachedImageNeverChanges ==
    [][\A d \in Distros : fs.cache[d] = "complete" => fs'.cache[d] = "complete"]_vars

C10_Witness ==
    \E p \in Procs :
        /\ proc[p].distro \in Catalog
        /\ pre[p].cache[proc[p].distro] = "complete"
        /\ Done(p) /\ proc[p].exit = 0

BlankOr(shown, written) == shown = written \/ shown = ""

\* C11: a vm-info.json that cannot be written or cannot be read back never
\* stops the run: the hypervisor is launched, the run exits 0, and the summary
\* is printed with blanks for the fields that could not be read.
C11_RecordErrorsOnlyBlankSummary ==
    \A p \in Procs :
        (Done(p) /\ Passed(p, "sv_show")) =>
            /\ proc[p].exit = 0 /\ Passed(p, "sv_launch")
            /\ proc[p].summary.shown
            /\ BlankOr(proc[p].summary.username, proc[p].username)
            /\ BlankOr(proc[p].summary.password, proc[p].password)

\* C12: a user-data file that has been written carries the VM name as
\* hostname and <name>.local as FQDN, the requested username, and one
\* non-empty hash, different from the plaintext, for the user and for root;
\* when hashing fails create_cloud_init returns without writing user-data.
C12_UserDataContent ==
    \A p \in Procs :
        /\ (Passed(p, "ci_userdata") /\ MyDir(p).userdata.st # "absent") =>
              /\ MyDir(p).userdata.hostname = proc[p].vm_name
              /\ MyDir(p).userdata.fqdn = <<proc[p].vm_name, "local">>
              /\ MyDir(p).userdata.user = proc[p].username
              /\ MyDir(p).userdata.passwd # ""
              /\ MyDir(p).userdata.passwd # proc[p].password
              /\ MyDir(p).userdata.rootpasswd = MyDir(p).userdata.passwd
        /\ (Done(p) /\ proc[p].err = "Failed to hash password") =>
              /\ proc[p].exit = 1 /\ ~Passed(p, "ci_userdata")
              /\ MyDir(p).userdata.st = "absent"

C12_Witness ==
    \E p \in Procs :
        /\ Passed(p, "ci_userdata") /\ MyDir(p).userdata.st = "file"
        /\ proc[p].username = DEFAULT_USER /\ proc[p].password = SecurePassword

\* C13: each of the five disk steps is a hard gate: when the VM directory,
\* the cached image, the disk copy, the resize or the firmware-variable file
\* is not there after its step, no later step runs.
C13_DiskStepsAreHardGates ==
    \A p \in Procs :
        /\ (Passed(p, "cv_mkdir") /\ ~MyDir(p).exists /\ proc[p].err # IsoError) =>
              ~Passed(p, "ed_lookup")
        /\ (Passed(p, "ed_lookup") /\ proc[p].distro \notin Catalog) =>
              ~Passed(p, "cv_copy")
        /\ (Passed(p, "cv_copy") /\ MyDir(p).exists /\ ~HasFile(MyDir(p), "disk")) =>
              ~Passed(p, "cv_resize")
        /\ (Passed(p, "cv_resize") /\ MyDir(p).exists
            /\ MyDir(p).disk.size # DEFAULT_DISK_SIZE) => ~Passed(p, "cv_mac")
        /\ (Passed(p, "cv_efi") /\ MyDir(p).exists /\ ~HasFile(MyDir(p), "efi")) =>
              /\ ~Passed(p, "ci_hash") /\ ~Passed(p, "cv_info")
              /\ ~Passed(p, "sv_launch")

\* C14: after a download that failed no file is left at the cache path, and
\* the next ensure_distro for that distro downloads again instead of taking a
\* partial file for a cache hit.
C14_FailedDownloadLeavesNoFile ==
    \A p \in Procs :
        /\ (Done(p) /\ proc[p].err = "Failed to download distro") =>
              /\ proc[p].exit = 1 /\ ~file_exists(fs, proc[p].distro)
              /\ ~Passed(p, "cv_copy")
        /\ (\A q \in Procs : proc[q].pc \notin {"ed_curl_wait", "ed_remove"}) =>
              \A d \in Distros : fs.cache[d] # "partial"
        /\ (Passed(p, "ed_exists") /\ pre[p].distroDir[proc[p].distro]
            /\ pre[p].cache[proc[p].distro] = "absent") =>
              (At(p, "ed_mkdir") \/ Passed(p, "ed_mkdir"))

C14_Witness ==
    \E p \in Procs :
        /\ Passed(p, "ed_curl_wait") /\ fs.cache[proc[p].distro] = "complete"
        /\ pre[p].distroDir[proc[p].distro]
        /\ pre[p].cache[proc[p].distro] = "absent"

Artifacts == {"disk", "efi", "iso", "info"}

\* C15: a launch ends as Running or as LaunchFailed; when the hypervisor
\* process does not come up start_vm fails, writes no pid file, skips the
\* boot wait and the summary, and leaves the provisioned files in place.
C15_FailedStartIsLaunchFailed ==
    \A p \in Procs :
        proc[p].qemu = "failed" =>
            /\ ~HasFile(MyDir(p), "pid")
            /\ ~Passed(p, "sv_sleep") /\ ~Passed(p, "sv_show")
            /\ Done(p) => /\ proc[p].exit = 1
                          /\ proc[p].err = "Failed to start QEMU"
                          /\ \A f \in Artifacts :
                                HasFile(MyDirBefore(p), f) => HasFile(MyDir(p), f)

\* C16: after a successful launch vm.pid holds the process id of the
\* hypervisor that the launch started.
C16_PidFileHoldsHypervisorPid ==
    \A p \in Procs :
        (Passed(p, "sv_pid") /\ proc[p].qemu = "running" /\ MyDir(p).exists) =>
            MyDir(p).pid \notin {"absent", "empty"}

\* position of the step lbl among the steps the run has taken, 0 if not taken
RECURSIVE PosFrom(_, _, _)
PosFrom(t, lbl, i) ==
    IF i > Len(t) THEN 0
    ELSE IF t[i] = lbl THEN i
    ELSE PosFrom(t, lbl, i + 1)

Pos(p, lbl) == PosFrom(proc[p].trace, lbl, 1)

\* step b is taken only after step a
Before(p, a, b) == Pos(p, b) > 0 => (Pos(p, a) > 0 /\ Pos(p, a) < Pos(p, b))

StepOrder ==
    <<"gen_name", "gen_pass", "check_root", "init_dirs", "check_qemu",
      "cv_exists", "cv_mkdir", "ed_lookup", "cv_copy", "cv_resize", "cv_mac",
      "cv_efi", "ci_hash", "ci_userdata", "ci_metadata", "cv_tmp_mkdir",
      "cv_tmp_copy", "cv_iso", "cv_info", "sv_reset", "sv_launch", "sv_pid",
      "sv_sleep", "sv_show">>

C18_ScratchDirAlwaysRemoved ==
    \A p \in Procs :
        /\ (Passed(p, "cv_tmp_mkdir") /\ Done(p)) => fs.tmp[p] = NoTmp
        /\ (Passed(p, "cv_tmp_rm") \/ Passed(p, "cv_iso_failed")) => ~fs.tmp[p].exists

C18_Witness ==
    \E p \in Procs :
        /\ Passed(p, "cv_tmp_rm") /\ ~fs.tmp[p].exists
        /\ MyDir(p).iso.st = "file" /\ MyDir(p).iso.userdata.st = "file"

GivenPasswords == {a.pass : a \in ArgVectors} \ {""}

\* C20: a generated password has exactly 12 characters, whether it comes
\* from the secure generator or from the fallback; it is never empty.
C20_GeneratedPasswordHas12Chars ==
    \A p \in Procs :
        (Passed(p, "gen_pass") /\ proc[p].password \notin GivenPasswords) =>
            Len(proc[p].password) = 12

\* the run has gone past create_vm's existence check into provisioning
Provisions(p) == Passed(p, "cv_exists") /\ proc[p].err # "VM already exists"

\* C19 as stated: of two concurrent invocations with the same VM name at most
\* one passes the existence check and provisions into vms/<name>/.
C19_SameNameAtMostOneProvisions ==
    \A p, q \in Procs :
        (p # q /\ proc[p].vm_name = proc[q].vm_name) =>
            ~(Provisions(p) /\ Provisions(q))

\* C19 as amended: an invocation is turned away exactly when vms/<name>/
\* exists at the moment of its own check; nothing is checked again when it
\* creates the directory, so invocations that check before either has created
\* it all go on to provision into the same directory.
C19_ExclusionOnlyAtCheckTime ==
    [][\A p \in Procs :
         (At(p, "cv_exists") /\ proc'[p].pc # "cv_exists") =>
             IF dir_exists(fs, proc[p].vm_name)
             THEN proc'[p].pc = "done" /\ proc'[p].err = "VM already exists"
                  /\ fs' = fs
             ELSE proc'[p].pc = "cv_mkdir"]_vars

C19_Witness ==
    \E p, q \in Procs :
        /\ p # q /\ proc[p].vm_name = proc[q].vm_name
        /\ Provisions(p) /\ Passed(p, "ci_userdata")
        /\ Done(q) /\ proc[q].err = IsoError /\ ~MyDir(p).exists

\* ensure_distro has returned 0 to create_vm in this run
EnsureDistroOk(p) == At(p, "cv_copy") \/ Passed(p, "cv_copy")

\* C21: with concurrent invocations that need the same distro, once
\* ensure_distro has returned success the file at the cache path is a whole
\* image and stays there; a disk is never copied from a download in progress.
C21_SuccessMeansCompleteImage ==
    \A p \in Procs :
        /\ EnsureDistroOk(p) => fs.cache[proc[p].distro] = "complete"
        /\ (Passed(p, "cv_copy") /\ HasFile(MyDir(p), "disk")) =>
              MyDir(p).disk.st = "complete"

\* C22: a cloud-init.iso that has been produced in a run that succeeds holds
\* the user-data and meta-data documents written for this VM in this run.
C22_IsoHoldsThisRunsDocuments ==
    \A p \in Procs :
        (Done(p) /\ proc[p].exit = 0 /\ HasFile(MyDir(p), "iso")) =>
            /\ MyDir(p).iso.userdata =
                  UserData(proc[p].vm_name, proc[p].username, proc[p].hashed_pass)
            /\ MyDir(p).iso.metadata = MetaData(proc[p].vm_name)

====
